---- MODULE Spec2Model ----
(***************************************************************************)
(* State-machine model of the RAG user-story agent: ingestion into the     *)
(* vector store (ingest.py, utils/data_scraper.py), retrieval              *)
(* (retriever.py), prompt composition (agent.py), the mocked model calls   *)
(* (utils/llm.py), the tracker client (utils/jira_client.py) and the three *)
(* front ends (agent.py, main.py, mcp_rag_server.py).                      *)
(*                                                                         *)
(* Text is a sequence of tokens; "\n" and " " are the whitespace tokens.   *)
(* A Python call evaluates to a result record: ok = TRUE with its value,   *)
(* or ok = FALSE with the exception class and message it raised.           *)
(***************************************************************************)
EXTENDS Integers, Sequences, FiniteSets, TLC

VARIABLES dbDir, collExists, records, resp, run, pure

vars == <<dbDir, collExists, records, resp, run, pure>>

(* ---------------------------- bounds ----------------------------------- *)
\* longest list of retrieved chunks handed to the prompt composer
MaxDocs == 3
\* most records the persisted collection holds when a process starts
MaxStored == 2

(* ------------------------- Python results ------------------------------ *)
Ok(v) == [ok |-> TRUE, val |-> v, exc |-> "none", msg |-> <<>>]

Raise(e, m) == [ok |-> FALSE, val |-> <<>>, exc |-> e, msg |-> m]

(* --------------------------- text helpers ------------------------------ *)
Whitespace == {" ", "\n"}

RECURSIVE lstrip(_)
lstrip(s) == IF s # <<>> /\ Head(s) \in Whitespace THEN lstrip(Tail(s)) ELSE s

RECURSIVE rstrip(_)
rstrip(s) ==
    IF s # <<>> /\ s[Len(s)] \in Whitespace THEN rstrip(SubSeq(s, 1, Len(s) - 1)) ELSE s

strip(s) == lstrip(rstrip(s))

\* s[:n]
Take(s, n) == SubSeq(s, 1, IF Len(s) < n THEN Len(s) ELSE n)

\* sep.join(parts)
RECURSIVE join(_, _)
join(sep, parts) ==
    IF parts = <<>> THEN <<>>
    ELSE IF Len(parts) = 1 THEN parts[1]
    ELSE parts[1] \o sep \o join(sep, Tail(parts))

\* s.splitlines()[0]; IndexError on a text with no lines
FirstLine(s) ==
    IF s = <<>> THEN Raise("IndexError", <<"list index out of range">>)
    ELSE LET brk == {i \in 1..Len(s) : s[i] = "\n"}
             end == IF brk = {} THEN Len(s)
                    ELSE (CHOOSE i \in brk : \A j \in brk : i <= j) - 1
         IN  Ok(SubSeq(s, 1, end))

(* ------------------------ agent.py: composer --------------------------- *)
ContextSeparator == <<"\n", "\n", "---", "\n", "\n">>

NoContextPhrase == "No specific context was found in the knowledge base for this query."

NoContextHead ==
    << "You are a helpful business analyst assistant.", "\n",
       "Please answer the following user request. Note: ", NoContextPhrase, "\n",
       "User Request: " >>

ContextHead ==
    << "You are a helpful business analyst assistant. Your task is to answer the user's request based on the provided context.", "\n",
       "If the context contains the necessary information, use it to formulate a detailed and accurate response.", "\n",
       "If the context does not fully cover the user's request, use your general knowledge to supplement the answer but clearly state which parts of the answer come from the provided context.", "\n",
       "\n",
       "CONTEXT:", "\n",
       "---", "\n" >>

ContextFoot == << "\n", "---", "\n", "\n", "USER REQUEST:", "\n" >>

\* a composer that keeps only the two best chunks
generate_enhanced_prompt_truncating(user_prompt, context_docs) ==
    IF context_docs = <<>> THEN NoContextHead \o user_prompt
    ELSE ContextHead \o join(ContextSeparator, Take(context_docs, 2))
           \o ContextFoot \o user_prompt \o <<"\n">>

\* a composer without the empty-list branch
generate_enhanced_prompt_always_context(user_prompt, context_docs) ==
    ContextHead \o join(ContextSeparator, context_docs)
       \o ContextFoot \o user_prompt \o <<"\n">>

generate_enhanced_prompt(user_prompt, context_docs) ==
    IF context_docs = <<>> THEN NoContextHead \o user_prompt
    ELSE ContextHead \o join(ContextSeparator, context_docs)
           \o ContextFoot \o user_prompt \o <<"\n">>

(* ------------------------- utils/llm.py -------------------------------- *)
\* the names utils/llm.py binds at module level
LlmExports == {"get_response", "embed_text"}

\* from utils.llm import n1, n2, ...: ImportError on the first name missing
from_utils_llm_import(names) ==
    LET missing == {i \in 1..Len(names) : names[i] \notin LlmExports}
    IN  IF missing = {} THEN Ok(names)
        ELSE LET first == CHOOSE i \in missing : \A j \in missing : i <= j
             IN  Raise("ImportError",
                       <<"cannot import name '", names[first], "' from 'utils.llm'">>)

\* [fence] stands for the three backquotes of a code fence
mock_response ==
    << "\n",
       "SUMMARY:", "\n",
       "This is a mock summary for a user story about a new login feature.", "\n",
       "\n",
       "DESCRIPTION:", "\n",
       "As a user, I want to be able to log in with my email and password so that I can access my account securely. This is a mock description.", "\n",
       "\n",
       "ACCEPTANCE CRITERIA:", "\n",
       "[fence]gherkin", "\n",
       "Given I am on the login page", "\n",
       "When I enter my valid credentials", "\n",
       "And I click the \"Login\" button", "\n",
       "Then I should be redirected to my dashboard", "\n",
       "[fence]", "\n",
       "\n",
       "POINTS ESTIMATE: 5", "\n" >>

\* the mocked generator: the same text for every prompt, and it never raises
get_response(user_prompt, llm) == Ok(mock_response)

EmbeddingDim == 1536

\* [0.99] + [0.01] * 1535, in hundredths
mock_vector == [dim |-> EmbeddingDim, first |-> 99, rest |-> 1]

\* the parameters of embed_text, none of which has a default
embed_text_params == {"text", "embedding_model"}

\* kwargs: the keyword arguments of the call
embed_text(kwargs) ==
    IF embed_text_params \subseteq DOMAIN kwargs THEN Ok(mock_vector)
    ELSE Raise("TypeError",
               << "embed_text() missing 1 required positional argument: 'embedding_model'" >>)

(* -------------------------- retriever.py ------------------------------- *)
EmptyDict == [keys |-> {}, documents |-> <<>>]

Min(a, b) == IF a < b THEN a ELSE b

\* collection.query: every stored embedding is the mock vector, so all
\* distances tie and order (a permutation of the record indices) is the
\* ranking the index happens to return
collection_query(recs, query_embedding, n_results, order) ==
    [keys |-> {"ids", "documents", "metadatas", "distances"},
     documents |-> << [i \in 1..Min(n_results, Len(recs)) |-> recs[order[i]].document] >>]

\* store = [dir, exists, recs]: the database directory, the collection, its records
query_vector_store(query, n_results, store, order) ==
    IF ~store.dir THEN Ok(EmptyDict)
    ELSE IF ~store.exists THEN Ok(EmptyDict)      \* get_collection: ValueError, caught
    ELSE LET query_embedding == embed_text([text |-> query])
         IN  IF ~query_embedding.ok THEN query_embedding
             ELSE Ok(collection_query(store.recs, query_embedding.val, n_results, order))

\* retrieved_results and retrieved_results.get('documents'), then documents[0]
retrieved_docs(retrieved_results) ==
    IF retrieved_results.keys # {} /\ retrieved_results.documents # <<>>
    THEN retrieved_results.documents[1]
    ELSE <<>>

(* ----------------------- utils/jira_client.py -------------------------- *)
RECURSIVE rstrip_slash(_)
rstrip_slash(s) ==
    IF s # <<>> /\ s[Len(s)] = "/" THEN rstrip_slash(SubSeq(s, 1, Len(s) - 1)) ELSE s

\* env: the process environment; an unset variable is the empty value
_get_jira_config(env) ==
    LET base_url == rstrip_slash(env.JIRA_BASE_URL)
    IN  IF base_url = <<>> THEN Raise("RuntimeError", <<"JIRA_BASE_URL is not set">>)
        ELSE IF env.JIRA_EMAIL = "" \/ env.JIRA_API_TOKEN = ""
        THEN Raise("RuntimeError", <<"JIRA_EMAIL or JIRA_API_TOKEN is not set">>)
        ELSE Ok([base_url |-> base_url, email |-> env.JIRA_EMAIL,
                 token |-> env.JIRA_API_TOKEN, default_project |-> env.JIRA_PROJECT_KEY])

SummaryLimit == 250

StatusText(code) ==
    CASE code = 200 -> "200" [] code = 201 -> "201" [] code = 400 -> "400"
      [] code = 401 -> "401" [] OTHER -> "500"

\* a client that sends the summary as it got it
create_story_uncut(summary, description, project_key, labels, env, http) ==
    LET cfg == _get_jira_config(env)
    IN  IF ~cfg.ok THEN [res |-> cfg, sent |-> <<>>]
        ELSE LET project == IF project_key # "" THEN project_key ELSE cfg.val.default_project
             IN  IF project = ""
                 THEN [res |-> Raise("RuntimeError",
                              <<"No project key provided and JIRA_PROJECT_KEY not set">>),
                       sent |-> <<>>]
                 ELSE LET payload == [url |-> cfg.val.base_url \o <<"/rest/api/2/issue">>,
                                      project |-> project,
                                      summary |-> summary,
                                      description |-> description,
                                      issuetype |-> "Story",
                                      labels |-> labels]
                      IN  IF http.status \notin {200, 201}
                          THEN [res |-> Raise("RuntimeError",
                                       <<"Jira create story failed: ", StatusText(http.status),
                                         " ", http.body>>),
                                sent |-> <<payload>>]
                          ELSE IF http.body = "text"
                          THEN [res |-> Raise("JSONDecodeError",
                                       <<"Expecting value: line 1 column 1 (char 0)">>),
                                sent |-> <<payload>>]
                          ELSE [res |-> Ok(http.body), sent |-> <<payload>>]

\* a client that does not look at the status of the answer
create_story_any_status(summary, description, project_key, labels, env, http) ==
    LET cfg == _get_jira_config(env)
    IN  IF ~cfg.ok THEN [res |-> cfg, sent |-> <<>>]
        ELSE LET project == IF project_key # "" THEN project_key ELSE cfg.val.default_project
             IN  IF project = ""
                 THEN [res |-> Raise("RuntimeError",
                              <<"No project key provided and JIRA_PROJECT_KEY not set">>),
                       sent |-> <<>>]
                 ELSE LET payload == [url |-> cfg.val.base_url \o <<"/rest/api/2/issue">>,
                                      project |-> project,
                                      summary |-> Take(summary, SummaryLimit),
                                      description |-> description,
                                      issuetype |-> "Story",
                                      labels |-> labels]
                      IN  IF FALSE
                          THEN [res |-> Raise("RuntimeError",
                                       <<"Jira create story failed: ", StatusText(http.status),
                                         " ", http.body>>),
                                sent |-> <<payload>>]
                          ELSE IF http.body = "text"
                          THEN [res |-> Raise("JSONDecodeError",
                                       <<"Expecting value: line 1 column 1 (char 0)">>),
                                sent |-> <<payload>>]
                          ELSE [res |-> Ok(http.body), sent |-> <<payload>>]

\* http = [status, body]: the tracker's answer to the POST; body is "issue"
\* (a JSON object with a key), "no_key" (a JSON object without one), "list"
\* (a JSON array) or "text" (not JSON).  The result carries what was sent.
create_story(summary, description, project_key, labels, env, http) ==
    LET cfg == _get_jira_config(env)
    IN  IF ~cfg.ok THEN [res |-> cfg, sent |-> <<>>]
        ELSE LET project == IF project_key # "" THEN project_key ELSE cfg.val.default_project
             IN  IF project = ""
                 THEN [res |-> Raise("RuntimeError",
                              <<"No project key provided and JIRA_PROJECT_KEY not set">>),
                       sent |-> <<>>]
                 ELSE LET payload == [url |-> cfg.val.base_url \o <<"/rest/api/2/issue">>,
                                      project |-> project,
                                      summary |-> Take(summary, SummaryLimit),
                                      description |-> description,
                                      issuetype |-> "Story",
                                      labels |-> labels]
                      IN  IF http.status \notin {200, 201}
                          THEN [res |-> Raise("RuntimeError",
                                       <<"Jira create story failed: ", StatusText(http.status),
                                         " ", http.body>>),
                                sent |-> <<payload>>]
                          ELSE IF http.body = "text"
                          THEN [res |-> Raise("JSONDecodeError",
                                       <<"Expecting value: line 1 column 1 (char 0)">>),
                                sent |-> <<payload>>]
                          ELSE [res |-> Ok(http.body), sent |-> <<payload>>]

(* ----------------------- utils/data_scraper.py -------------------------- *)
\* An element is [type, id, text, html]; html = <<>> is text_as_html = None.
\* Table is a subclass of Text in the element library; CheckBox is not.
IsTable(el) == el.type = "Table"

IsText(el) == el.type \in {"Text", "Table"}

Digit(i) == CASE i = 0 -> "0" [] i = 1 -> "1" [] i = 2 -> "2" [] i = 3 -> "3" [] OTHER -> "n"

\* What the extraction libraries do with one file: x = [ocr_ok, pages, ocr_id,
\* part_ok, elements].  ocr_ok = FALSE is a failure of the page rendering or
\* of the recognition, part_ok = FALSE a failure of the partitioner.
RECURSIVE ocr_pages(_, _)
ocr_pages(pages, i) ==
    IF i > Len(pages) THEN <<>>
    ELSE <<"\n", "--- Page ", Digit(i), " ---", "\n">> \o pages[i] \o ocr_pages(pages, i + 1)

scrape_pdf_with_ocr(x) ==
    IF ~x.ocr_ok THEN <<>> ELSE strip(ocr_pages(x.pages, 1))

SelectTables(els) == SelectSeq(els, IsTable)

scrape_pdf_hybrid(x) ==
    LET ocr_text == scrape_pdf_with_ocr(x)
        text_el  == IF ocr_text # <<>>
                    THEN << [type |-> "Text", id |-> x.ocr_id, text |-> ocr_text, html |-> <<>>] >>
                    ELSE <<>>
        tables   == IF x.part_ok THEN SelectTables(x.elements) ELSE <<>>
    IN  text_el \o tables

scrape_excel(x) == IF x.part_ok THEN x.elements ELSE <<>>

lower(ext) == CASE ext = ".PDF" -> ".pdf" [] ext = ".XLSX" -> ".xlsx" [] OTHER -> ext

\* file = [stem, ext]
scrape_document(file, x) ==
    LET ext == lower(file.ext)
    IN  IF ext = ".pdf" THEN scrape_pdf_hybrid(x)
        ELSE IF ext = ".xlsx" THEN scrape_excel(x)
        ELSE <<>>

(* ----------------------------- ingest.py ------------------------------- *)
chunk_size == 1000

chunk_overlap == 150

\* text_splitter.split_text: windows of at most chunk_size tokens, each
\* starting chunk_size - chunk_overlap after the previous one
RECURSIVE split_windows(_, _)
split_windows(content, from) ==
    IF from + chunk_size - 1 >= Len(content) THEN << SubSeq(content, from, Len(content)) >>
    ELSE << SubSeq(content, from, from + chunk_size - 1) >>
           \o split_windows(content, from + chunk_size - chunk_overlap)

split_text(content) ==
    LET body == strip(content) IN IF body = <<>> THEN <<>> ELSE split_windows(body, 1)

file_name_of(file) == <<file.stem, file.ext>>

\* f-string {file_name}_{element.id}_{i}
chunk_id_of(file, element, i) == file_name_of(file) \o <<"_">> \o element.id \o <<"_", Digit(i)>>

\* f.endswith(('.pdf', '.xlsx')), case-sensitive
is_supported(file) == file.ext \in {".pdf", ".xlsx"}

files_to_process(listing) == SelectSeq(listing, is_supported)

\* a client that starts every run from a fresh collection
get_or_create_collection_fresh(exists, recs) == <<>>

\* client.get_or_create_collection: the records of the collection afterwards
get_or_create_collection(exists, recs) == IF exists THEN recs ELSE <<>>

\* collection.add of one record.  What the store does with an id it already
\* holds is the library's choice: dup = "raise" rejects it, dup = "ignore"
\* drops the new record.
collection_add(recs, rec, dup) ==
    IF \E k \in 1..Len(recs) : recs[k].id = rec.id
    THEN IF dup = "raise"
         THEN [recs |-> recs, res |-> Raise("DuplicateIDError", <<"Expected IDs to be unique">>)]
         ELSE [recs |-> recs, res |-> Ok(<<>>)]
    ELSE [recs |-> Append(recs, rec), res |-> Ok(<<>>)]

\* the content of an element and its type, or skip = TRUE
element_content(element) ==
    IF IsTable(element) /\ element.html # <<>>
    THEN [skip |-> FALSE, content |-> element.html, content_type |-> "table"]
    ELSE IF IsText(element)
    THEN [skip |-> FALSE, content |-> element.text, content_type |-> "text"]
    ELSE [skip |-> TRUE, content |-> <<>>, content_type |-> "none"]

\* for i, chunk in enumerate(chunks): ... collection.add(...)
RECURSIVE ingest_chunks(_, _, _, _, _, _, _)
ingest_chunks(file, element, content_type, chunks, i, recs, dup) ==
    IF i >= Len(chunks) THEN [recs |-> recs, res |-> Ok(<<>>)]
    ELSE LET chunk     == chunks[i + 1]
             chunk_id  == chunk_id_of(file, element, i)
             embedding == embed_text([text |-> chunk])
         IN  IF ~embedding.ok THEN [recs |-> recs, res |-> embedding]
             ELSE LET metadata == [source |-> file_name_of(file),
                                   content_type |-> content_type,
                                   element_id |-> element.id]
                      added == collection_add(recs,
                                   [id |-> chunk_id, embedding |-> embedding.val,
                                    document |-> chunk, metadata |-> metadata], dup)
                  IN  IF ~added.res.ok THEN added
                      ELSE ingest_chunks(file, element, content_type, chunks, i + 1,
                                         added.recs, dup)

\* for element in elements: ...
RECURSIVE ingest_elements(_, _, _, _, _)
ingest_elements(file, elements, k, recs, dup) ==
    IF k > Len(elements) THEN [recs |-> recs, res |-> Ok(<<>>)]
    ELSE LET c == element_content(elements[k])
         IN  IF c.skip \/ c.content = <<>> \/ strip(c.content) = <<>>
             THEN ingest_elements(file, elements, k + 1, recs, dup)
             ELSE LET done == ingest_chunks(file, elements[k], c.content_type,
                                            split_text(c.content), 0, recs, dup)
                  IN  IF ~done.res.ok THEN done
                      ELSE ingest_elements(file, elements, k + 1, done.recs, dup)

\* for file_name in files_to_process: ...  processed lists the files whose
\* iteration has started, skipped those that yielded no element
RECURSIVE ingest_files(_, _, _, _, _, _, _)
ingest_files(files, extraction, k, recs, processed, skipped, dup) ==
    IF k > Len(files)
    THEN [recs |-> recs, res |-> Ok(<<>>), processed |-> processed, skipped |-> skipped]
    ELSE LET file     == files[k]
             elements == scrape_document(file, extraction[k])
         IN  IF elements = <<>>
             THEN ingest_files(files, extraction, k + 1, recs,
                               Append(processed, file), Append(skipped, file), dup)
             ELSE LET done == ingest_elements(file, elements, 1, recs, dup)
                  IN  IF ~done.res.ok
                      THEN [recs |-> done.recs, res |-> done.res,
                            processed |-> Append(processed, file), skipped |-> skipped]
                      ELSE ingest_files(files, extraction, k + 1, done.recs,
                                        Append(processed, file), skipped, dup)

\* ingest_data() over a corpus directory listing; extraction[k] is what the
\* extraction libraries do with the k-th file to process
ingest_data(listing, extraction, store, dup) ==
    LET collection == get_or_create_collection(store.exists, store.recs)
    IN  ingest_files(files_to_process(listing), extraction, 1, collection, <<>>, <<>>, dup)

(* ----------------------------- front ends ------------------------------ *)
\* The outcome of one request: the text handed back (ok) or the exception that
\* left the front end uncaught, the pipeline steps completed, the top-k asked
\* of the store, and the payloads sent to the tracker.
Returned(text, steps, sent) ==
    [ok |-> TRUE, exc |-> "none", msg |-> <<>>, text |-> text, steps |-> steps,
     top_k |-> 3, sent |-> sent]

Uncaught(r, steps) ==
    [ok |-> FALSE, exc |-> r.exc, msg |-> r.msg, text |-> <<>>, steps |-> steps,
     top_k |-> 3, sent |-> <<>>]

\* retriever.py, module level: from utils.llm import embed_text
retriever_module == from_utils_llm_import(<<"embed_text">>)

\* agent.py, module level
agent_module ==
    IF ~retriever_module.ok THEN retriever_module
    ELSE from_utils_llm_import(<<"get_response", "llm", "embedding_model">>)

\* main.py, module level
main_module ==
    IF ~agent_module.ok THEN agent_module
    ELSE IF ~retriever_module.ok THEN retriever_module
    ELSE from_utils_llm_import(<<"get_response", "llm", "embedding_model">>)

\* agent.py: run_agent prints the final response
run_agent(user_prompt, store, order) ==
    LET retrieved_results == query_vector_store(user_prompt, 3, store, order)
    IN  IF ~retrieved_results.ok THEN Uncaught(retrieved_results, <<>>)
        ELSE LET docs            == retrieved_docs(retrieved_results.val)
                 enhanced_prompt == generate_enhanced_prompt(user_prompt, docs)
                 final_response  == get_response(enhanced_prompt, "llm")
             IN  IF ~final_response.ok
                 THEN Uncaught(final_response, <<"retrieve", "compose">>)
                 ELSE Returned(final_response.val, <<"retrieve", "compose", "generate">>, <<>>)

\* python agent.py: the module is loaded, then run_agent is called
cli_run_agent(user_prompt, store, order) ==
    IF ~agent_module.ok THEN Uncaught(agent_module, <<>>)
    ELSE run_agent(user_prompt, store, order)

\* main.py: POST /generate-story
generate_story_endpoint(request_prompt, store, order) ==
    LET retrieved_results == query_vector_store(request_prompt, 3, store, order)
    IN  IF ~retrieved_results.ok THEN Uncaught(retrieved_results, <<>>)
        ELSE LET docs            == retrieved_docs(retrieved_results.val)
                 enhanced_prompt == generate_enhanced_prompt(request_prompt, docs)
                 final_response  == get_response(enhanced_prompt, "llm")
             IN  IF ~final_response.ok
                 THEN Uncaught(final_response, <<"retrieve", "compose">>)
                 ELSE Returned(final_response.val, <<"retrieve", "compose", "generate">>, <<>>)

\* python main.py: the module is loaded, then the endpoint serves the request
http_generate_story(request_prompt, store, order) ==
    IF ~main_module.ok THEN Uncaught(main_module, <<>>)
    ELSE generate_story_endpoint(request_prompt, store, order)

\* mcp_rag_server.py: step 4 of the tool, inside its own try/except
tool_create_jira(prompt, final_response, project_key, labels, env, http) ==
    LET first == FirstLine(final_response)
    IN  IF ~first.ok
        THEN [text |-> final_response \o <<"\n", "\n", "Jira creation failed: ">> \o first.msg,
              sent |-> <<>>]
        ELSE LET s1      == strip(IF first.val # <<>> THEN first.val ELSE prompt)
                 s2      == IF s1 = <<>> THEN strip(prompt) ELSE s1
                 summary == Take(s2, SummaryLimit)
                 issue   == create_story(summary, final_response, project_key, labels, env, http)
             IN  IF ~issue.res.ok
                 THEN [text |-> final_response
                                  \o <<"\n", "\n", "Jira creation failed: ">> \o issue.res.msg,
                       sent |-> issue.sent]
                 ELSE IF issue.res.val = "issue"
                 THEN [text |-> final_response
                                  \o <<"\n", "\n", "Jira issue created: ", "BA-1">>,
                       sent |-> issue.sent]
                 ELSE [text |-> final_response
                                  \o <<"\n", "\n", "Jira creation returned unexpected response.">>,
                       sent |-> issue.sent]

\* a tool without the outer try/except: the exception leaves the tool
ToolError_propagating(r, steps) == Uncaught(r, steps)

ToolError(r, steps) ==
    Returned(<<"Error during BA story generation: ">> \o r.msg, steps, <<>>)

\* mcp_rag_server.py: the tool, imports included (they run inside its try)
business_analyst_story_generator(prompt, create_jira, project_key, labels, store, order, env, http) ==
    IF ~retriever_module.ok THEN ToolError(retriever_module, <<>>)
    ELSE IF ~agent_module.ok THEN ToolError(agent_module, <<>>)
    ELSE IF ~from_utils_llm_import(<<"get_response", "llm">>).ok
    THEN ToolError(from_utils_llm_import(<<"get_response", "llm">>), <<>>)
    ELSE LET retrieved_results == query_vector_store(prompt, 3, store, order)
         IN  IF ~retrieved_results.ok THEN ToolError(retrieved_results, <<>>)
             ELSE LET docs            == retrieved_docs(retrieved_results.val)
                      enhanced_prompt == generate_enhanced_prompt(prompt, docs)
                      final_response  == get_response(enhanced_prompt, "llm")
                      steps           == <<"retrieve", "compose", "generate">>
                  IN  IF ~final_response.ok
                      THEN ToolError(final_response, <<"retrieve", "compose">>)
                      ELSE IF create_jira
                      THEN LET j == tool_create_jira(prompt, final_response.val,
                                                     project_key, labels, env, http)
                           IN  Returned(j.text, Append(steps, "jira"), j.sent)
                      ELSE Returned(final_response.val, steps, <<>>)

(* ------------------------------ inputs --------------------------------- *)
Prompts == { <<"Create", " ", "a", " ", "story">>, <<" ", "Track", " ", "KPIs", "\n">> }

\* chunk texts the store may hold or hand back; one of them is the separator
\* the composer joins with, one carries the template's own section marker
ChunkTexts == { <<"net", " ", "profit">>, <<"CONTEXT:">>, ContextSeparator, <<"net">> }

UserTexts == Prompts \cup { <<>>, <<"net">> }

RECURSIVE SeqsUpTo(_, _)
SeqsUpTo(S, n) ==
    IF n = 0 THEN { <<>> }
    ELSE LET shorter == SeqsUpTo(S, n - 1)
         IN  shorter \cup { Append(q, x) : q \in {t \in shorter : Len(t) = n - 1}, x \in S }

StoredRecord(k) ==
    [id |-> <<"old", ".pdf", "_", "e", "_", Digit(k - 1)>>,
     embedding |-> mock_vector,
     document |-> IF k = 1 THEN <<"net", " ", "profit">> ELSE <<"CONTEXT:">>,
     metadata |-> [source |-> <<"old", ".pdf">>, content_type |-> "text",
                   element_id |-> <<"e">>]]

\* what the collection on disk may hold when a process starts
StoredSets == { [k \in 1..n |-> StoredRecord(k)] : n \in 0..MaxStored }

Orders(n) == { f \in [1..n -> 1..n] : \A i, j \in 1..n : f[i] = f[j] => i = j }

JiraEnv(u, e, t, k) ==
    [JIRA_BASE_URL |-> u, JIRA_EMAIL |-> e, JIRA_API_TOKEN |-> t, JIRA_PROJECT_KEY |-> k]

JiraEnvs ==
    { JiraEnv(<<"https://jira.example", "/">>, "ba@example.com", "token", "BA"),
      JiraEnv(<<"https://jira.example", "/">>, "ba@example.com", "token", ""),
      JiraEnv(<<>>, "ba@example.com", "token", "BA"),
      JiraEnv(<<"/">>, "ba@example.com", "token", "BA"),
      JiraEnv(<<"https://jira.example">>, "", "token", "BA"),
      JiraEnv(<<"https://jira.example">>, "ba@example.com", "", "BA") }

NoEnv == [JIRA_BASE_URL |-> <<>>, JIRA_EMAIL |-> "", JIRA_API_TOKEN |-> "", JIRA_PROJECT_KEY |-> ""]

HttpAnswers ==
    { [status |-> 201, body |-> "issue"], [status |-> 200, body |-> "no_key"],
      [status |-> 200, body |-> "text"],  [status |-> 400, body |-> "text"] }

Files ==
    [a |-> [stem |-> "a", ext |-> ".pdf"],  b |-> [stem |-> "b", ext |-> ".xlsx"],
     c |-> [stem |-> "c", ext |-> ".txt"],  d |-> [stem |-> "d", ext |-> ".PDF"]]

Listings == { <<>>, <<Files.a>>, <<Files.c, Files.b>>, <<Files.a, Files.c, Files.b, Files.d>> }

TableEl == [type |-> "Table", id |-> <<"t1">>, text |-> <<"q3", " ", "47.8">>,
            html |-> <<"<table>", "q3", "47.8", "</table>">>]

BlankEl == [type |-> "Text", id |-> <<"x1">>, text |-> <<" ", "\n">>, html |-> <<>>]

BoxEl == [type |-> "CheckBox", id |-> <<"c1">>, text |-> <<>>, html |-> <<>>]

Extractions ==
    { \* every extraction step fails
      [ocr_ok |-> FALSE, pages |-> <<>>, ocr_id |-> <<"e0">>, part_ok |-> FALSE, elements |-> <<>>],
      \* a two-page scan, no table
      [ocr_ok |-> TRUE, pages |-> << <<"alpha">>, <<"beta", "\n">> >>, ocr_id |-> <<"e0">>,
       part_ok |-> TRUE, elements |-> <<>>],
      \* one table, recognition fails
      [ocr_ok |-> FALSE, pages |-> <<>>, ocr_id |-> <<"e0">>, part_ok |-> TRUE,
       elements |-> <<TableEl>>],
      \* elements with nothing to ingest
      [ocr_ok |-> TRUE, pages |-> <<>>, ocr_id |-> <<"e0">>, part_ok |-> TRUE,
       elements |-> <<BlankEl, BoxEl>>] }

ExtractionsFor(listing) ==
    LET n == Len(files_to_process(listing))
    IN  { q \in SeqsUpTo(Extractions, n) : Len(q) = n }

(* --------------------------- state machine ----------------------------- *)
Store == [dir |-> dbDir, exists |-> collExists, recs |-> records]

NoOutcome == Returned(<<>>, <<>>, <<>>)

\* the store as a request found it
Snapshot(store) == [dir |-> store.dir, exists |-> store.exists, count |-> Len(store.recs)]

NoResp == [op |-> "none", prompt |-> <<>>, create_jira |-> FALSE, env |-> NoEnv,
           store |-> [dir |-> FALSE, exists |-> FALSE, count |-> 0],
           out |-> NoOutcome, retrieved |-> EmptyDict]

NoRun == [started |-> FALSE, corpus |-> FALSE, listing |-> <<>>, extraction |-> <<>>,
          before |-> 0, res |-> Ok(<<>>), processed |-> <<>>, skipped |-> <<>>]

NoPure == [op |-> "none", user |-> <<>>, docs |-> <<>>, out |-> <<>>]

Init ==
    /\ dbDir \in BOOLEAN
    /\ collExists \in BOOLEAN
    /\ records \in StoredSets
    /\ collExists => dbDir
    /\ records # <<>> => collExists
    /\ resp = NoResp
    /\ run = NoRun
    /\ pure = NoPure

\* python ingest.py
Ingest ==
    \E corpus \in BOOLEAN, listing \in Listings, dup \in {"raise", "ignore"} :
      \E extraction \in ExtractionsFor(listing) :
        IF ~corpus
        THEN /\ run' = [NoRun EXCEPT !.started = TRUE, !.before = Len(records)]
             /\ UNCHANGED <<dbDir, collExists, records, resp, pure>>
        ELSE LET done == ingest_data(listing, extraction, Store, dup)
             IN  /\ dbDir' = TRUE
                 /\ collExists' = TRUE
                 /\ records' = done.recs
                 /\ run' = [started |-> TRUE, corpus |-> TRUE, listing |-> listing,
                            extraction |-> extraction, before |-> Len(records),
                            res |-> done.res, processed |-> done.processed,
                            skipped |-> done.skipped]
                 /\ UNCHANGED <<resp, pure>>

\* a direct call of query_vector_store (python retriever.py)
Query ==
    \E q \in Prompts, n \in {3, 5}, order \in Orders(Len(records)) :
      LET r == query_vector_store(q, n, Store, order)
      IN  /\ resp' = [op |-> "query", prompt |-> q, create_jira |-> FALSE, env |-> NoEnv,
                      store |-> Snapshot(Store),
                      out |-> IF r.ok THEN Returned(<<>>, <<"retrieve">>, <<>>)
                              ELSE Uncaught(r, <<>>),
                      retrieved |-> IF r.ok THEN r.val ELSE EmptyDict]
          /\ UNCHANGED <<dbDir, collExists, records, run, pure>>

\* python agent.py
CliRunAgent ==
    \E q \in Prompts, order \in Orders(Len(records)) :
      /\ resp' = [op |-> "cli", prompt |-> q, create_jira |-> FALSE, env |-> NoEnv,
                  store |-> Snapshot(Store),
                  out |-> cli_run_agent(q, Store, order), retrieved |-> EmptyDict]
      /\ UNCHANGED <<dbDir, collExists, records, run, pure>>

\* POST /generate-story
HttpGenerateStory ==
    \E q \in Prompts, order \in Orders(Len(records)) :
      /\ resp' = [op |-> "http", prompt |-> q, create_jira |-> FALSE, env |-> NoEnv,
                  store |-> Snapshot(Store),
                  out |-> http_generate_story(q, Store, order), retrieved |-> EmptyDict]
      /\ UNCHANGED <<dbDir, collExists, records, run, pure>>

\* tools/call business_analyst_story_generator
ToolCall ==
    \E q \in Prompts, create_jira \in BOOLEAN, project_key \in {"", "PRJ"},
       labels \in { <<>>, <<"ba">> }, env \in JiraEnvs, http \in HttpAnswers,
       order \in Orders(Len(records)) :
      /\ resp' = [op |-> "tool", prompt |-> q, create_jira |-> create_jira, env |-> env,
                  store |-> Snapshot(Store),
                  out |-> business_analyst_story_generator(q, create_jira, project_key,
                                                           labels, Store, order, env, http),
                  retrieved |-> EmptyDict]
      /\ UNCHANGED <<dbDir, collExists, records, run, pure>>

Next == Ingest \/ Query \/ CliRunAgent \/ HttpGenerateStory \/ ToolCall

Spec == Init /\ [][Next]_vars

(* ------------------- the prompt composer on its own -------------------- *)
InitCompose ==
    /\ dbDir = FALSE
    /\ collExists = FALSE
    /\ records = <<>>
    /\ resp = NoResp
    /\ run = NoRun
    /\ pure = NoPure

Compose ==
    \E user \in UserTexts, docs \in SeqsUpTo(ChunkTexts, MaxDocs) :
      /\ pure' = [op |-> "compose", user |-> user, docs |-> docs,
                  out |-> generate_enhanced_prompt(user, docs)]
      /\ UNCHANGED <<dbDir, collExists, records, resp, run>>

NextCompose == Compose

SpecCompose == InitCompose /\ [][NextCompose]_vars

(* ------------------------------ claims --------------------------------- *)
StartsWith(s, prefix) == Len(s) >= Len(prefix) /\ SubSeq(s, 1, Len(prefix)) = prefix

Range(s) == { s[i] : i \in 1..Len(s) }

FailureNote == <<"\n", "\n", "Jira creation failed: ">>

CredentialsMissing(env) ==
    env.JIRA_BASE_URL = <<>> \/ env.JIRA_EMAIL = "" \/ env.JIRA_API_TOKEN = ""

\* C1: a tool call with create_jira = true and missing tracker credentials
\* returns the generated Story followed by the literal failure note.
C1_StoryThenFailureNote ==
    (resp.op = "tool" /\ resp.create_jira /\ CredentialsMissing(resp.env))
        => /\ resp.out.ok
           /\ StartsWith(resp.out.text, mock_response \o FailureNote)
           /\ Len(resp.out.text) > Len(mock_response \o FailureNote)

\* C2: query_vector_store returns an empty result and does not raise when the
\* database directory is absent, when the collection was never created, and
\* when the collection exists but holds no record.
C2_EmptyStoreEmptyResult ==
    (resp.op = "query"
       /\ (~resp.store.dir \/ ~resp.store.exists \/ resp.store.count = 0))
        => resp.out.ok /\ retrieved_docs(resp.retrieved) = <<>>

RECURSIVE SumLen(_, _)
SumLen(parts, n) == IF n = 0 THEN 0 ELSE Len(parts[n]) + SumLen(parts, n - 1)

\* where the i-th chunk starts in a prompt composed with context
ChunkStart(docs, i) == Len(ContextHead) + SumLen(docs, i - 1) + (i - 1) * Len(ContextSeparator) + 1

\* C3: with a non-empty chunk list, every supplied chunk appears verbatim and
\* whole in the prompt, once per supplied chunk, in the order of the list, and
\* the prompt holds nothing but the template, the chunks, the separators
\* between them and the user request.
C3_ChunksVerbatimInOrder ==
    (pure.op = "compose" /\ pure.docs # <<>>)
        => LET out == pure.out
               n   == Len(pure.docs)
           IN  /\ \A i \in 1..n :
                     SubSeq(out, ChunkStart(pure.docs, i),
                            ChunkStart(pure.docs, i) + Len(pure.docs[i]) - 1) = pure.docs[i]
               /\ \A i \in 1..(n - 1) :
                     ChunkStart(pure.docs, i) + Len(pure.docs[i]) < ChunkStart(pure.docs, i + 1)
               /\ Len(out) = Len(ContextHead) + SumLen(pure.docs, n)
                               + (n - 1) * Len(ContextSeparator)
                               + Len(ContextFoot) + Len(pure.user) + 1

C3_Witness ==
    /\ pure.op = "compose"
    /\ Len(pure.docs) = MaxDocs
    /\ pure.docs[1] # pure.docs[2]
    /\ ContextSeparator \in Range(pure.docs)
    /\ pure.user # <<>>

\* C4: with an empty chunk list the prompt is the no-context template: it
\* ends with the user request, and what precedes the request states that no
\* context was found and has no CONTEXT section.
C4_NoContextTemplate ==
    (pure.op = "compose" /\ pure.docs = <<>>)
        => LET out == pure.out
               k   == Len(out) - Len(pure.user)
           IN  /\ k >= 0
               /\ SubSeq(out, k + 1, Len(out)) = pure.user
               /\ \E i \in 1..k : out[i] = NoContextPhrase
               /\ \A i \in 1..k : out[i] # "CONTEXT:"

C4_Witness ==
    /\ pure.op = "compose"
    /\ pure.docs = <<>>
    /\ pure.user # <<>>
    /\ NoContextPhrase \in Range(pure.out)

\* the chunks one ingestion run over the corpus is due to write
RECURSIVE ChunksOfElements(_, _)
ChunksOfElements(elements, k) ==
    IF k > Len(elements) THEN 0
    ELSE LET c == element_content(elements[k])
         IN  (IF c.skip \/ strip(c.content) = <<>> THEN 0 ELSE Len(split_text(c.content)))
               + ChunksOfElements(elements, k + 1)

RECURSIVE ChunksOfFiles(_, _, _)
ChunksOfFiles(files, extraction, k) ==
    IF k > Len(files) THEN 0
    ELSE ChunksOfElements(scrape_document(files[k], extraction[k]), 1)
           + ChunksOfFiles(files, extraction, k + 1)

\* C5: an ingestion run completes and the collection grows by one record per
\* chunk of every non-empty element of every supported file.
C5_OneRecordPerChunk ==
    (run.started /\ run.corpus)
        => /\ run.res.ok
           /\ Len(records) = run.before
                               + ChunksOfFiles(files_to_process(run.listing), run.extraction, 1)

\* C6: no step removes or changes a record of the collection; the collection
\* only grows at its end.
C6_RecordsOnlyAppended ==
    [][ /\ Len(records') >= Len(records)
        /\ \A k \in 1..Len(records) : records'[k] = records[k] ]_vars

C6_Witness ==
    /\ records # <<>>
    /\ run.started /\ run.corpus /\ ~run.res.ok /\ run.processed # <<>>
    /\ run.before = Len(records)
    /\ resp.op = "tool"

\* C8: an ingestion run is never aborted by one file: whatever fails while a
\* file is processed, every file to process has its turn.
C8_BatchNeverAborted ==
    (run.started /\ run.corpus) => run.processed = files_to_process(run.listing)

\* C9: every front-end request ends with a response text and never with an
\* uncaught exception.
C9_AlwaysAResponse ==
    resp.op \in {"cli", "http", "tool"} => resp.out.ok /\ resp.out.text # <<>>

\* C10: for the same prompt and the same store, the CLI, the HTTP endpoint
\* and the tool without tracker filing end the same way: same steps, same
\* top-k, same Story text.  Checked on every request the CLI or the HTTP
\* endpoint has just served, against the other two front ends.
C10_FrontEndsAgree ==
    (resp.op \in {"cli", "http"} /\ resp.store = Snapshot(Store))
        => \E order \in Orders(Len(records)) :
             /\ resp.out = cli_run_agent(resp.prompt, Store, order)
             /\ resp.out = http_generate_story(resp.prompt, Store, order)
             /\ resp.out = business_analyst_story_generator(
                               resp.prompt, FALSE, "", <<>>, Store, order,
                               NoEnv, [status |-> 201, body |-> "issue"])

KeyLine == <<"\n", "\n", "Jira issue created: ">>

UnexpectedNote == <<"\n", "\n", "Jira creation returned unexpected response.">>

\* C11: the tool returns exactly the Story when create_jira is false, and
\* sends nothing to the tracker; when create_jira is true it returns the
\* Story followed by the line with the issue key or by a failure note.  In
\* every case the text starts with the unmodified Story.
C11_StoryThenTrackerLine ==
    resp.op = "tool"
        => /\ resp.out.ok
           /\ StartsWith(resp.out.text, mock_response)
           /\ ~resp.create_jira => (resp.out.text = mock_response /\ resp.out.sent = <<>>)
           /\ resp.create_jira
                 => \/ StartsWith(resp.out.text, mock_response \o KeyLine)
                    \/ StartsWith(resp.out.text, mock_response \o FailureNote)
                    \/ resp.out.text = mock_response \o UnexpectedNote

(* -------------------- the tracker client on its own -------------------- *)
\* how far past the summary limit the summaries tried go
MaxOver == 3

\* a text of n tokens; the tokens past the summary limit differ from those before
Filler(n) == [i \in 1..n |-> IF i <= SummaryLimit THEN "s" ELSE "t"]

JiraSummaries ==
    { Filler(n) : n \in (0..1) \cup ((SummaryLimit - 1)..(SummaryLimit + MaxOver)) }

JiraDescriptions == { mock_response, Filler(SummaryLimit + 2) }

JiraHttpAnswers ==
    HttpAnswers \cup { [status |-> 400, body |-> "no_key"], [status |-> 401, body |-> "issue"],
                       [status |-> 500, body |-> "text"] }

\* the arguments, the environment and the tracker's answer of one call
InitJira ==
    /\ dbDir = FALSE
    /\ collExists = FALSE
    /\ records = <<>>
    /\ resp = NoResp
    /\ run = NoRun
    /\ \E summary \in JiraSummaries, description \in JiraDescriptions,
          project_key \in {"", "PRJ"}, labels \in { <<>>, <<"ba">> },
          env \in JiraEnvs, http \in JiraHttpAnswers :
         pure = [op |-> "args", summary |-> summary, description |-> description,
                 project_key |-> project_key, labels |-> labels, env |-> env,
                 http |-> http, res |-> Ok(<<>>), sent |-> <<>>]

\* a direct call of create_story
CreateStory ==
    /\ pure.op = "args"
    /\ LET done == create_story(pure.summary, pure.description, pure.project_key,
                                pure.labels, pure.env, pure.http)
       IN  pure' = [pure EXCEPT !.op = "create_story", !.res = done.res, !.sent = done.sent]
    /\ UNCHANGED <<dbDir, collExists, records, resp, run>>

NextJira == CreateStory

SpecJira == InitJira /\ [][NextJira]_vars

\* C12: every request sent to the tracker carries a summary of at most 250
\* characters, the first 250 of the summary given (all of it when it is
\* shorter), and the description given, whole.
C12_SummaryCutDescriptionWhole ==
    pure.op = "create_story"
        => \A k \in 1..Len(pure.sent) :
             LET sent == pure.sent[k]
             IN  /\ Len(sent.summary) <= 250
                 /\ Len(sent.summary) = Min(Len(pure.summary), 250)
                 /\ \A i \in 1..Len(sent.summary) : sent.summary[i] = pure.summary[i]
                 /\ sent.description = pure.description

C12_Witness ==
    /\ pure.op = "create_story"
    /\ pure.sent # <<>>
    /\ Len(pure.summary) > 250
    /\ Len(pure.description) > 250
    /\ pure.res.ok

ConfigMissing(env, project_key) ==
    \/ env.JIRA_BASE_URL = <<>>
    \/ env.JIRA_EMAIL = "" \/ env.JIRA_API_TOKEN = ""
    \/ (project_key = "" /\ env.JIRA_PROJECT_KEY = "")

\* C13: create_story fails, with the status code and the body of the answer
\* in its error, whenever the tracker answers with a status other than 200
\* or 201; it returns only on 200 or 201; and it fails without sending a
\* request when the base URL, the credentials or every project key is missing.
C13_FailsOnStatusAndConfig ==
    pure.op = "create_story"
        => /\ (pure.sent # <<>> /\ pure.http.status \notin {200, 201})
                 => /\ ~pure.res.ok
                    /\ StatusText(pure.http.status) \in Range(pure.res.msg)
                    /\ pure.http.body \in Range(pure.res.msg)
           /\ pure.res.ok => (pure.sent # <<>> /\ pure.http.status \in {200, 201})
           /\ ConfigMissing(pure.env, pure.project_key)
                 => (~pure.res.ok /\ pure.sent = <<>>)

C13_Witness ==
    /\ pure.op = "create_story"
    /\ pure.sent # <<>>
    /\ pure.http.status = 400
    /\ ~pure.res.ok
    /\ pure.project_key = "" /\ pure.env.JIRA_PROJECT_KEY # ""

\* C14: every embedding call of the query path and of the ingestion path
\* returns a vector of exactly 1536 numbers: a query that finds its collection
\* gets the vector of its text, and an ingestion run with chunks to embed
\* does not fail in the embedder.
C14_EmbeddingCallsReturnVectors ==
    /\ (resp.op = "query" /\ resp.store.dir /\ resp.store.exists)
          => /\ embed_text([text |-> resp.prompt]).ok
             /\ embed_text([text |-> resp.prompt]).val.dim = 1536
             /\ resp.out.ok
    /\ (run.started /\ run.corpus
          /\ ChunksOfFiles(files_to_process(run.listing), run.extraction, 1) > 0)
          => run.res.exc # "TypeError"

ErrorPrefix == <<"Error during BA story generation: ">>

PipelineSteps == <<"retrieve", "compose", "generate">>

\* C16: the tool always returns a text and never lets an exception out; when
\* a step before the tracker step fails, the text starts with "Error during
\* BA story generation:"; and a text starting with the Story is returned only
\* after retrieval, composition and generation have all completed.
C16_ToolIsTotal ==
    resp.op = "tool"
        => /\ resp.out.ok
           /\ resp.out.exc = "none"
           /\ ~StartsWith(resp.out.steps, PipelineSteps)
                 => (StartsWith(resp.out.text, ErrorPrefix) /\ resp.out.sent = <<>>)
           /\ StartsWith(resp.out.text, mock_response)
                 => StartsWith(resp.out.steps, PipelineSteps)

C16_Witness ==
    /\ resp.op = "tool"
    /\ resp.create_jira
    /\ resp.out.ok
    /\ resp.out.steps = <<>>
    /\ StartsWith(resp.out.text, ErrorPrefix)
    /\ Len(resp.out.text) > Len(ErrorPrefix)

TrackerConfigured(env) ==
    /\ rstrip_slash(env.JIRA_BASE_URL) # <<>>
    /\ env.JIRA_EMAIL # "" /\ env.JIRA_API_TOKEN # ""
    /\ env.JIRA_PROJECT_KEY # ""

\* the summary due for a Story and a prompt: the first line of the Story
\* without surrounding whitespace, the prompt without surrounding whitespace
\* when that line is empty or blank, cut to 250 characters
DueSummary(story, prompt) ==
    LET line == strip(FirstLine(story).val)
    IN  Take(IF line = <<>> THEN strip(prompt) ELSE line, 250)

\* C17: when the tool files a tracker issue (create_jira is true and the
\* tracker is configured), the one request it sends carries the due summary
\* and, as description, the generated Story without any note.
C17_SummaryAndDescriptionSent ==
    (resp.op = "tool" /\ resp.create_jira /\ TrackerConfigured(resp.env))
        => /\ Len(resp.out.sent) = 1
           /\ resp.out.sent[1].summary = DueSummary(mock_response, resp.prompt)
           /\ resp.out.sent[1].description = mock_response

(* ------------------- mcp_client.py: read_json -------------------------- *)
\* longest server output tried, in lines
MaxLines == 3

\* What the server wrote, line by line.  "json" is a line starting with { or [
\* that parses, "badjson" one that does not parse, "blank" a whitespace-only
\* line, "log" any other text, "cl" a Content-Length header with a number,
\* "clbad" one without.  A header's length is that of the line after the
\* line that follows it.
LineKinds == {"json", "badjson", "blank", "log", "cl", "clbad"}

Streams == SeqsUpTo(LineKinds, MaxLines)

\* rd = [op, stream, pos, pc, result, exc, at, polls]: pos lines are consumed;
\* result is "None", "message" (the line at index at) or "raised"; polls is
\* the parity of the readline calls answered by the end of the stream
ReaderAt(stream) ==
    [op |-> "read_json", stream |-> stream, pos |-> 0, pc |-> "start",
     result |-> "pending", exc |-> "none", at |-> 0, polls |-> 0]

AtEnd(rd) == rd.pos = Len(rd.stream)

Finish(rd, pos, result, exc, at) ==
    [rd EXCEPT !.pos = pos, !.pc = "done", !.result = result, !.exc = exc, !.at = at]

\* after a header at line h: readline() for the blank line, read(length),
\* json.loads(body)
read_framed(rd, h) ==
    LET after_blank == Min(h + 1, Len(rd.stream))
        body_at     == after_blank + 1
    IN  IF body_at <= Len(rd.stream) /\ rd.stream[body_at] = "json"
        THEN Finish(rd, body_at, "message", "none", body_at)
        ELSE Finish(rd, Min(body_at, Len(rd.stream)), "raised", "JSONDecodeError", 0)

\* lines 21-39: the first readline and what it decides
read_json_first(rd) ==
    IF AtEnd(rd) THEN Finish(rd, rd.pos, "None", "none", 0)
    ELSE LET h == rd.pos + 1
             s == rd.stream[h]
         IN  CASE s = "json"    -> Finish(rd, h, "message", "none", h)
               [] s = "badjson" -> Finish(rd, h, "raised", "JSONDecodeError", 0)
               [] s = "cl"      -> read_framed(rd, h)
               [] s = "clbad"   -> Finish(rd, Min(h + 1, Len(rd.stream)), "raised",
                                          "JSONDecodeError", 0)
               [] OTHER         -> [rd EXCEPT !.pos = h, !.pc = "loop"]

\* lines 41-54: one turn of the while True loop
read_json_loop(rd) ==
    IF AtEnd(rd) THEN [rd EXCEPT !.polls = 1 - rd.polls]      \* if not line: continue
    ELSE LET h == rd.pos + 1
             s == rd.stream[h]
         IN  CASE s = "blank"   -> [rd EXCEPT !.pos = h]
               [] s = "cl"      -> read_framed(rd, h)
               [] s = "clbad"   -> Finish(rd, Min(h + 1, Len(rd.stream)), "raised",
                                          "ValueError", 0)
               [] s = "json"    -> Finish(rd, h, "message", "none", h)
               [] s = "badjson" -> Finish(rd, h, "raised", "JSONDecodeError", 0)
               [] OTHER         -> [rd EXCEPT !.pos = h]

InitRead ==
    /\ dbDir = FALSE
    /\ collExists = FALSE
    /\ records = <<>>
    /\ resp = NoResp
    /\ run = NoRun
    /\ \E stream \in Streams : pure = ReaderAt(stream)

ReadFirstLine ==
    /\ pure.pc = "start"
    /\ pure' = read_json_first(pure)
    /\ UNCHANGED <<dbDir, collExists, records, resp, run>>

ReadLoop ==
    /\ pure.pc = "loop"
    /\ pure' = read_json_loop(pure)
    /\ UNCHANGED <<dbDir, collExists, records, resp, run>>

NextRead == ReadFirstLine \/ ReadLoop

SpecRead == InitRead /\ [][NextRead]_vars

\* C18: read_json ends on every finite stream; in particular a readline that
\* meets the end of the stream, on the first line or after blank and
\* non-JSON lines, makes it return None.
C18_EndOfStreamReturnsNone ==
    [][ (pure.op = "read_json" /\ pure.pc # "done" /\ AtEnd(pure))
           => (pure'.pc = "done" /\ pure'.result = "None") ]_vars

====
